---- MODULE Spec2Model ----
(***************************************************************************)
(* funckeeper: a decorator that records every call of a wrapped function   *)
(* in the SQLite table function_records, and the queries over that table.  *)
(* Model of src/funckeeper/core.py, class FuncKeeper.                      *)
(*                                                                         *)
(* Texts that SQL searches with LIKE are sequences of one-character        *)
(* strings (<<"a", ",", "b">> is the text "a,b"); texts that are only      *)
(* compared for equality are TLA+ strings.                                 *)
(***************************************************************************)
EXTENDS Integers, Sequences, FiniteSets, TLC

(* ------------------------------ bounds -------------------------------- *)

\* wrapped invocations started in one behaviour
MaxCalls == 2
\* last reading of the wall clock (readings are 1..MaxClock)
MaxClock == 2
MaxRateCalls == 3
MaxItems == 2
MaxNesting == 2

\* threads of the process that call wrapped functions
Threads == {"t1", "t2"}

\* timezone_offset values (hours) a FuncKeeper is constructed with
Offsets == {-1, 1}

(* ------------------------------ values -------------------------------- *)

\* SQL NULL in a column whose values are TLA+ strings
NULL == "<NULL>"
\* SQL NULL in a column whose values are character sequences
NullText == <<"<NULL>">>

\* the decorated functions: what inspect finds for each, and the tags given
\* to the decorator
Funcs ==
  { [name |-> <<"f">>, source |-> <<"f", "x">>, doc |-> <<"d">>,
     hasSource |-> TRUE, hasModule |-> TRUE, scanOk |-> TRUE,
     tags |-> << <<"a">>, <<"b">> >>],
    [name |-> <<"g">>, source |-> <<"g", "x">>, doc |-> <<>>,
     hasSource |-> TRUE, hasModule |-> TRUE, scanOk |-> FALSE,
     tags |-> << <<"A", "b">> >>],
    [name |-> <<"h">>, source |-> <<>>, doc |-> <<>>,
     hasSource |-> FALSE, hasModule |-> TRUE, scanOk |-> FALSE,
     tags |-> <<>>],
    [name |-> <<"k">>, source |-> <<"k", "x">>, doc |-> <<>>,
     hasSource |-> TRUE, hasModule |-> FALSE, scanOk |-> TRUE,
     tags |-> << <<"C">> >>] }

NoFunc == [name |-> <<>>, source |-> <<>>, doc |-> <<>>,
           hasSource |-> FALSE, hasModule |-> FALSE, scanOk |-> FALSE,
           tags |-> <<>>]

\* exception objects; "base" marks a BaseException that is no Exception
ValueErr == [type |-> "ValueError", msg |-> <<"b", "a", "d">>, base |-> FALSE]
KbdInterrupt == [type |-> "KeyboardInterrupt", msg |-> <<>>, base |-> TRUE]
SourceErr == [type |-> "OSError", msg |-> <<"s", "r", "c">>, base |-> FALSE]
ModuleErr == [type |-> "AttributeError", msg |-> <<"f", "i", "l", "e">>, base |-> FALSE]
LockedErr == [type |-> "OperationalError", msg |-> <<"l", "o", "c", "k">>, base |-> FALSE]
NoColumnErr == [type |-> "OperationalError", msg |-> <<"c", "o", "l">>, base |-> FALSE]
NoErr == [type |-> "", msg |-> <<>>, base |-> FALSE]

\* what the target does with the arguments of a call: return a value or raise
Returns(v) == [kind |-> "return", val |-> v, exc |-> NoErr]
Raises(e) == [kind |-> "raise", val |-> "", exc |-> e]
NoOutcome == [kind |-> "none", val |-> "", exc |-> NoErr]
Behaviours == {Returns("None"), Raises(ValueErr), Raises(KbdInterrupt)}

(* --------------------------- pure functions --------------------------- *)

\* a returned None stored as SQL NULL instead of the JSON text null
JsonDumpsRaw(v) == IF v = "None" THEN NULL ELSE v

\* json.dumps(self._serialize_args(v)) of a returned primitive
JsonDumps(v) == IF v = "None" THEN "null" ELSE v

RECURSIVE Join(_)
\* ",".join(tags)
Join(tags) ==
  IF tags = <<>> THEN <<>>
  ELSE IF Len(tags) = 1 THEN tags[1]
  ELSE tags[1] \o <<",">> \o Join(Tail(tags))

\* ",".join(tags) if tags else ""
TagsText(tags) == IF tags # <<>> THEN Join(tags) ELSE <<>>

\* json.dumps(deps): the dependency scan gives the sorted imports, or none
DependenciesJson(f) == IF f.scanOk THEN "{imports: [os]}" ELSE "{imports: []}"

\* datetime.now(self.timezone).isoformat(): the wall-clock digits of the
\* instant in the zone, followed by the zone's offset
Timestamp(now, tz) == [local |-> now + tz, off |-> tz]

\* the instant an ISO timestamp denotes
Instant(ts) == ts.local - ts.off

\* the "+HH:00" / "-HH:00" suffix as it sorts in text: '+' sorts before '-'
OffsetKey(o) == IF o >= 0 THEN <<0, o>> ELSE <<1, 0 - o>>

\* SQLite's TEXT comparison (BINARY collation) of two ISO timestamps
TextLeq(a, b) ==
  \/ a.local < b.local
  \/ /\ a.local = b.local
     /\ \/ OffsetKey(a.off)[1] < OffsetKey(b.off)[1]
        \/ /\ OffsetKey(a.off)[1] = OffsetKey(b.off)[1]
           /\ OffsetKey(a.off)[2] <= OffsetKey(b.off)[2]

\* ASCII case folding of LIKE
Fold(c) == IF c = "A" THEN "a" ELSE IF c = "B" THEN "b" ELSE IF c = "C" THEN "c" ELSE c

RECURSIVE LikeMatch(_, _)
\* SQLite's  text LIKE pattern : % is any run, _ any one character
LikeMatch(p, s) ==
  IF p = <<>> THEN s = <<>>
  ELSE IF Head(p) = "%"
       THEN LikeMatch(Tail(p), s) \/ (s # <<>> /\ LikeMatch(p, Tail(s)))
       ELSE /\ s # <<>>
            /\ (Head(p) = "_" \/ Fold(Head(p)) = Fold(Head(s)))
            /\ LikeMatch(Tail(p), Tail(s))

\* column LIKE '%word%' ; NULL LIKE anything is not true
Like(col, word) ==
  IF col = NullText THEN FALSE ELSE LikeMatch(<<"%">> \o word \o <<"%">>, col)

(* ------------------------------- state -------------------------------- *)

VARIABLES
  clock,     \* the wall clock that datetime.now reads
  timezone,  \* self.timezone of the FuncKeeper in use, as an offset in hours
  db,        \* the rows of function_records, in the order they were committed
  seq,       \* sqlite_sequence of the AUTOINCREMENT id: the largest id given
  lock,      \* the thread whose connection holds SQLite's write lock, or "free"
  pc,        \* per thread: where its wrapper invocation stands
  fn,        \* per thread: the decorated function being invoked
  beh,       \* per thread: what the target does with this call's arguments
  called,    \* per thread: func(*args, **kwargs) has been entered
  caught,    \* per thread: the exception e bound by "except Exception as e"
  rec,       \* per thread: the record dict being built and saved
  outcome,   \* per thread: what the wrapper hands back to its caller
  written,   \* per thread: rows this invocation has committed (history)
  calls,     \* invocations started so far (history, bounds the behaviour)
  sr,        \* the value returned by the query that has just completed
  columns,   \* the columns the table function_records has
  tm,        \* one invocation followed with the clock: the readings it takes
  sz,        \* a value handed to _serialize_args, and what came back
  inv        \* one invocation followed with its arguments: the objects passed

vars == <<clock, timezone, db, seq, lock, pc, fn, beh, called, caught, rec,
          outcome, written, calls, sr, columns, tm, sz, inv>>

\* the state of the table's schema, of the timed invocation and of the
\* serializer, which the steps of the wrapper and the queries leave alone
aside == <<columns, tm, sz, inv>>

NoRecord == [status |-> "none"]
NoSearch == [kind |-> "none"]

\* the record dict of the success branch (without its execution_time entry,
\* which no query condition reads)
SuccessRecord(f, result) ==
  [func_name |-> f.name, module_path |-> "m.py", source_code |-> f.source,
   doc_string |-> f.doc, dependencies |-> DependenciesJson(f),
   args |-> "[]", kwargs |-> "{}", tags |-> TagsText(f.tags),
   status |-> "success", return_value |-> JsonDumps(result),
   error_type |-> NULL, error_message |-> NullText,
   error_traceback |-> NULL, error_state |-> NULL]

\* traceback.format_exc() while e is being handled
FormatExc(e) ==
  CASE e.type = "ValueError" -> "Traceback: ValueError"
    [] e.type = "AttributeError" -> "Traceback: AttributeError"
    [] e.type = "OperationalError" -> "Traceback: OperationalError"
    [] OTHER -> "Traceback"

\* the record dict of the except branch (without its execution_time entry)
ErrorRecord(f, e) ==
  [func_name |-> f.name, module_path |-> "m.py", source_code |-> f.source,
   doc_string |-> f.doc, dependencies |-> DependenciesJson(f),
   args |-> "[]", kwargs |-> "{}", tags |-> TagsText(f.tags),
   status |-> "error", return_value |-> NULL,
   error_type |-> e.type, error_message |-> e.msg,
   error_traceback |-> FormatExc(e), error_state |-> "{args: [], kwargs: {}}"]

\* _save_record, before it connects: the dependencies are already JSON text
\* here; record["timestamp"] = self._get_current_timestamp()
Stamped(record, now, tz) == record @@ [timestamp |-> Timestamp(now, tz)]

\* an id that is not advanced past the last one given
NextIdStale(s) == IF s = 0 THEN 1 ELSE s

\* the id AUTOINCREMENT gives the next inserted row
NextId(s) == s + 1

\* CREATE TABLE function_records: the columns of a table _init_db creates
\* (execution_time apart)
CreateTable ==
  {"id", "func_name", "module_path", "source_code", "doc_string", "dependencies",
   "args", "kwargs", "return_value", "status", "error_type", "error_message",
   "error_traceback", "error_state", "tags", "timestamp"}

\* _init_db on a table that exists: PRAGMA table_info, and ALTER TABLE ... ADD
\* COLUMN doc_string when that column is not among the table's; it looks for
\* no other column
AlterTable(cols) ==
  IF "doc_string" \in cols THEN cols ELSE cols \cup {"doc_string"}

\* the rows of the table after _init_db: those already there read NULL in a
\* column that was added
Altered(rows, cols) ==
  IF "doc_string" \in cols \/ rows = <<>> THEN rows
  ELSE [i \in 1 .. Len(rows) |-> rows[i] @@ [doc_string |-> NullText]]

\* no invocation is being followed with the clock
NoTiming ==
  [pc |-> "off", kind |-> "", start_time |-> 0, entered |-> 0, left |-> 0,
   execution_time |-> 0]

\* no value has been handed to _serialize_args
NoValue == [t |-> "absent", v |-> "", items |-> <<>>]
NoSerialized == [x |-> NoValue, y |-> NoValue, yy |-> NoValue, step |-> 0]

\* no invocation is being followed with its arguments
NoArguments == [args |-> <<>>, kwargs |-> <<>>]
NoEffect == [on |-> "none", at |-> 0]
NoInvocation ==
  [pc |-> "off", kind |-> "", called_with |-> NoArguments, now |-> NoArguments,
   effect |-> NoEffect, record |-> [status |-> "none"]]

\* the new row written over the last one
ReplaceRow(rows, record) ==
  IF rows = <<>> THEN <<record>> ELSE [rows EXCEPT ![Len(rows)] = record]

\* INSERT INTO function_records (...): the table with the row added
InsertRow(rows, record) == Append(rows, record)

Init ==
  /\ clock = 1
  /\ timezone \in Offsets
  /\ db = <<>>
  /\ seq = 0
  /\ lock = "free"
  /\ pc = [t \in Threads |-> "idle"]
  /\ fn = [t \in Threads |-> NoFunc]
  /\ beh = [t \in Threads |-> NoOutcome]
  /\ called = [t \in Threads |-> FALSE]
  /\ caught = [t \in Threads |-> NoErr]
  /\ rec = [t \in Threads |-> NoRecord]
  /\ outcome = [t \in Threads |-> NoOutcome]
  /\ written = [t \in Threads |-> 0]
  /\ calls = 0
  /\ sr = NoSearch
  /\ columns = CreateTable
  /\ tm = NoTiming
  /\ sz = NoSerialized
  /\ inv = NoInvocation

(* ------------------------- the wrapper, by step ----------------------- *)

\* a thread calls a wrapped function, one of the first n calls: inspect.getsource, getdoc and
\* _get_dependencies run before the try block; getsource raises OSError
\* when the source is not found, _get_dependencies catches its own failures
CallUpTo(t, n) ==
  /\ pc[t] = "idle"
  /\ calls < n
  /\ \E f \in Funcs, b \in Behaviours :
       /\ fn' = [fn EXCEPT ![t] = f]
       /\ beh' = [beh EXCEPT ![t] = b]
       /\ IF f.hasSource
          THEN /\ pc' = [pc EXCEPT ![t] = "target"]
               /\ UNCHANGED outcome
          ELSE /\ pc' = [pc EXCEPT ![t] = "done"]
               /\ outcome' = [outcome EXCEPT ![t] = Raises(SourceErr)]
  /\ calls' = calls + 1
  /\ sr' = NoSearch
  /\ UNCHANGED <<clock, timezone, db, seq, lock, called, caught, rec, written>>
  /\ UNCHANGED aside

\* the wrapped calls a program makes while it is followed
Call(t) == CallUpTo(t, MaxCalls)

\* result = func(*args, **kwargs)
Target(t) ==
  /\ pc[t] = "target"
  /\ called' = [called EXCEPT ![t] = TRUE]
  /\ CASE beh[t].kind = "return" ->
            /\ pc' = [pc EXCEPT ![t] = "build"]
            /\ UNCHANGED <<caught, outcome>>
       [] beh[t].kind = "raise" /\ ~beh[t].exc.base ->
            /\ pc' = [pc EXCEPT ![t] = "except"]
            /\ caught' = [caught EXCEPT ![t] = beh[t].exc]
            /\ UNCHANGED outcome
       [] beh[t].kind = "raise" /\ beh[t].exc.base ->
            /\ pc' = [pc EXCEPT ![t] = "done"]
            /\ outcome' = [outcome EXCEPT ![t] = Raises(beh[t].exc)]
            /\ UNCHANGED caught
  /\ sr' = NoSearch
  /\ UNCHANGED <<clock, timezone, db, seq, lock, fn, beh, rec, written, calls>>
  /\ UNCHANGED aside

\* the record dict of the try block, handed to _save_record; inspect.getmodule(func).__file__ raises
\* AttributeError when the module is not resolved
BuildSuccess(t) ==
  /\ pc[t] = "build"
  /\ IF fn[t].hasModule
     THEN /\ rec' = [rec EXCEPT ![t] =
                      Stamped(SuccessRecord(fn[t], beh[t].val), clock, timezone)]
          /\ pc' = [pc EXCEPT ![t] = "insert"]
          /\ UNCHANGED caught
     ELSE /\ caught' = [caught EXCEPT ![t] = ModuleErr]
          /\ pc' = [pc EXCEPT ![t] = "except"]
          /\ UNCHANGED rec
  /\ sr' = NoSearch
  /\ UNCHANGED <<clock, timezone, db, seq, lock, fn, beh, called, outcome, written, calls>>
  /\ UNCHANGED aside

\* except Exception as e: the record dict of the handler, handed to
\* _save_record; inspect.getmodule(func).__file__ is evaluated again
Except(t) ==
  /\ pc[t] = "except"
  /\ IF fn[t].hasModule
     THEN /\ rec' = [rec EXCEPT ![t] =
                      Stamped(ErrorRecord(fn[t], caught[t]), clock, timezone)]
          /\ pc' = [pc EXCEPT ![t] = "insert"]
          /\ UNCHANGED outcome
     ELSE /\ outcome' = [outcome EXCEPT ![t] = Raises(ModuleErr)]
          /\ pc' = [pc EXCEPT ![t] = "done"]
          /\ UNCHANGED rec
  /\ sr' = NoSearch
  /\ UNCHANGED <<clock, timezone, db, seq, lock, fn, beh, called, caught, written, calls>>
  /\ UNCHANGED aside

\* _save_record: conn.execute(INSERT ...) names the keys of the record as
\* columns, takes the write lock and gets an id
SaveInsert(t) ==
  /\ pc[t] = "insert"
  /\ DOMAIN rec[t] \subseteq columns
  /\ lock = "free"
  /\ lock' = t
  /\ rec' = [rec EXCEPT ![t] = rec[t] @@ [id |-> NextId(seq)]]
  /\ pc' = [pc EXCEPT ![t] = "commit"]
  /\ sr' = NoSearch
  /\ UNCHANGED <<clock, timezone, db, seq, fn, beh, called, caught, outcome, written, calls>>
  /\ UNCHANGED aside

\* _save_record: another connection holds the write lock for longer than the
\* connection's busy timeout; conn.execute raises sqlite3.OperationalError
SaveLocked(t) ==
  /\ pc[t] = "insert"
  /\ lock \notin {"free", t}
  /\ IF rec[t].status = "success"
     THEN /\ caught' = [caught EXCEPT ![t] = LockedErr]
          /\ pc' = [pc EXCEPT ![t] = "except"]
          /\ UNCHANGED outcome
     ELSE /\ outcome' = [outcome EXCEPT ![t] = Raises(LockedErr)]
          /\ pc' = [pc EXCEPT ![t] = "done"]
          /\ UNCHANGED caught
  /\ sr' = NoSearch
  /\ UNCHANGED <<clock, timezone, db, seq, lock, fn, beh, called, rec, written, calls>>
  /\ UNCHANGED aside

\* _save_record: the table lacks a column the INSERT names; conn.execute
\* raises sqlite3.OperationalError
SaveNoColumn(t) ==
  /\ pc[t] = "insert"
  /\ ~(DOMAIN rec[t] \subseteq columns)
  /\ IF rec[t].status = "success"
     THEN /\ caught' = [caught EXCEPT ![t] = NoColumnErr]
          /\ pc' = [pc EXCEPT ![t] = "except"]
          /\ UNCHANGED outcome
     ELSE /\ outcome' = [outcome EXCEPT ![t] = Raises(NoColumnErr)]
          /\ pc' = [pc EXCEPT ![t] = "done"]
          /\ UNCHANGED caught
  /\ sr' = NoSearch
  /\ UNCHANGED <<clock, timezone, db, seq, lock, fn, beh, called, rec, written, calls>>
  /\ UNCHANGED aside

\* _save_record: leaving the with block commits the row; then the try block
\* returns result, the handler re-raises e
SaveCommit(t) ==
  /\ pc[t] = "commit"
  /\ db' = InsertRow(db, rec[t])
  /\ seq' = rec[t].id
  /\ lock' = "free"
  /\ written' = [written EXCEPT ![t] = written[t] + 1]
  /\ outcome' = [outcome EXCEPT ![t] =
                   IF rec[t].status = "success" THEN Returns(beh[t].val)
                   ELSE Raises(caught[t])]
  /\ pc' = [pc EXCEPT ![t] = "done"]
  /\ sr' = NoSearch
  /\ UNCHANGED <<clock, timezone, fn, beh, called, caught, rec, calls>>
  /\ UNCHANGED aside

\* control is back with the caller
Return(t) ==
  /\ pc[t] = "done"
  /\ pc' = [pc EXCEPT ![t] = "idle"]
  /\ fn' = [fn EXCEPT ![t] = NoFunc]
  /\ beh' = [beh EXCEPT ![t] = NoOutcome]
  /\ called' = [called EXCEPT ![t] = FALSE]
  /\ caught' = [caught EXCEPT ![t] = NoErr]
  /\ rec' = [rec EXCEPT ![t] = NoRecord]
  /\ outcome' = [outcome EXCEPT ![t] = NoOutcome]
  /\ written' = [written EXCEPT ![t] = 0]
  /\ sr' = NoSearch
  /\ UNCHANGED <<clock, timezone, db, seq, lock, calls>>
  /\ UNCHANGED aside

(* ----------------------------- environment ---------------------------- *)

\* time passes
Tick ==
  /\ clock < MaxClock
  /\ clock' = clock + 1
  /\ sr' = NoSearch
  /\ UNCHANGED <<timezone, db, seq, lock, pc, fn, beh, called, caught, rec, outcome, written, calls>>
  /\ UNCHANGED aside

\* FuncKeeper(db_path, timezone_offset=o) on the same file; _init_db finds
\* the table
Reopen ==
  /\ \A t \in Threads : pc[t] = "idle"
  /\ \E o \in Offsets \ {timezone} : timezone' = o
  /\ columns' = AlterTable(columns)
  /\ db' = Altered(db, columns)
  /\ sr' = NoSearch
  /\ UNCHANGED <<clock, seq, lock, pc, fn, beh, called, caught, rec, outcome, written, calls>>
  /\ UNCHANGED <<tm, sz, inv>>

(* ------------------------- a table of an older version ---------------- *)

\* the columns of function_records in files that versions without one or more
\* of today's columns left behind
OldSchemas ==
  {CreateTable \ missing :
     missing \in {{}, {"doc_string"}, {"error_state"}, {"doc_string", "tags"}}}

\* a row as a table of the columns cols holds it
Restrict(row, cols) == [c \in cols \cap DOMAIN row |-> row[c]]

\* the rows such a file holds: none, or one of a call that returned and one
\* of a call that raised
OldStores(cols, tz) ==
  {<<>>} \cup
  {<<Restrict(Stamped(SuccessRecord(f, "None"), 1, tz) @@ [id |-> 1], cols),
     Restrict(Stamped(ErrorRecord(f, ValueErr), 1, tz) @@ [id |-> 2], cols)>> :
       f \in {g \in Funcs : g.hasSource /\ g.hasModule}}

\* a file written before this program starts; no FuncKeeper is constructed yet
InitOldStore ==
  /\ clock = 1
  /\ timezone \in Offsets
  /\ columns \in OldSchemas
  /\ db \in OldStores(columns, timezone)
  /\ seq = Len(db)
  /\ lock = "free"
  /\ pc = [t \in Threads |-> "closed"]
  /\ fn = [t \in Threads |-> NoFunc]
  /\ beh = [t \in Threads |-> NoOutcome]
  /\ called = [t \in Threads |-> FALSE]
  /\ caught = [t \in Threads |-> NoErr]
  /\ rec = [t \in Threads |-> NoRecord]
  /\ outcome = [t \in Threads |-> NoOutcome]
  /\ written = [t \in Threads |-> 0]
  /\ calls = 0
  /\ sr = NoSearch
  /\ tm = NoTiming
  /\ sz = NoSerialized
  /\ inv = NoInvocation

\* FuncKeeper(db_path, timezone_offset=o) on that file: _init_db finds the
\* table; the threads can call wrapped functions from here on
Open ==
  /\ \A t \in Threads : pc[t] = "closed"
  /\ pc' = [t \in Threads |-> "idle"]
  /\ \E o \in Offsets : timezone' = o
  /\ columns' = AlterTable(columns)
  /\ db' = Altered(db, columns)
  /\ sr' = NoSearch
  /\ UNCHANGED <<clock, seq, lock, fn, beh, called, caught, rec, outcome, written, calls>>
  /\ UNCHANGED <<tm, sz, inv>>

\* a stored text that json.loads rejects
Malformed == "(1, 2)"

\* the JSON columns of a row
JsonColumns == {"args", "kwargs", "return_value"}

\* a row of the wrapper, or the row with the text of one JSON column replaced
\* by text that is not JSON
Damaged(row) ==
  {row} \cup {[row EXCEPT ![c] = Malformed] : c \in {k \in JsonColumns : row[k] # NULL}}

\* a file of two rows of the wrapper, in which another program may have
\* rewritten a JSON column; the FuncKeeper is constructed
InitDamaged ==
  /\ clock = MaxClock
  /\ timezone \in Offsets
  /\ columns = CreateTable
  /\ \E f \in {g \in Funcs : g.hasSource /\ g.hasModule} :
       \E r1 \in Damaged(Stamped(SuccessRecord(f, "None"), 1, timezone) @@ [id |-> 1]),
          r2 \in Damaged(Stamped(SuccessRecord(f, "None"), MaxClock, timezone) @@ [id |-> 2])
                 \cup Damaged(Stamped(ErrorRecord(f, ValueErr), MaxClock, timezone) @@ [id |-> 2]) :
         db = <<r1, r2>>
  /\ seq = Len(db)
  /\ lock = "free"
  /\ pc = [t \in Threads |-> "idle"]
  /\ fn = [t \in Threads |-> NoFunc]
  /\ beh = [t \in Threads |-> NoOutcome]
  /\ called = [t \in Threads |-> FALSE]
  /\ caught = [t \in Threads |-> NoErr]
  /\ rec = [t \in Threads |-> NoRecord]
  /\ outcome = [t \in Threads |-> NoOutcome]
  /\ written = [t \in Threads |-> 0]
  /\ calls = MaxCalls
  /\ sr = NoSearch
  /\ tm = NoTiming
  /\ sz = NoSerialized
  /\ inv = NoInvocation

(* -------------------------------- search ------------------------------ *)

\* a datetime argument: None, naive (no tzinfo), or aware
NoDate == [given |-> FALSE, naive |-> FALSE, local |-> 0, off |-> 0]
Naive(l) == [given |-> TRUE, naive |-> TRUE, local |-> l, off |-> 0]
Aware(l, o) == [given |-> TRUE, naive |-> FALSE, local |-> l, off |-> o]

\* the arguments of search; "", [] and None are the same to "if keyword:",
\* "if tags:" and "if status:"
Query(kw, tg, st, sd, ed) ==
  [keyword |-> kw, tags |-> tg, status |-> st, start_date |-> sd, end_date |-> ed]

\* wall-clock readings a date argument can carry
DateLocals == 1 .. MaxClock
Dates == {Naive(l) : l \in DateLocals} \cup {Aware(l, o) : l \in DateLocals, o \in Offsets}
Keywords == {<<>>, <<"f">>, <<"A">>}
TagLists == {<< <<"a">> >>, << <<"b">> >>, << <<"c">> >>, << <<"a", "b">> >>,
             << <<"b">>, <<"x">> >>}
Statuses == {"success", "error", "failed"}

\* the calls of search that are made
Queries ==
  {Query(kw, <<>>, "", NoDate, NoDate) : kw \in Keywords}
  \cup {Query(<<>>, tg, "", NoDate, NoDate) : tg \in TagLists}
  \cup {Query(<<>>, <<>>, st, NoDate, NoDate) : st \in Statuses}
  \cup {Query(<<>>, <<>>, "", d, NoDate) : d \in Dates}
  \cup {Query(<<>>, <<>>, "", NoDate, d) : d \in Dates}
  \cup {Query(<<>>, <<>>, "", Naive(l), Naive(l)) : l \in DateLocals}
  \cup {Query(<<"f">>, << <<"a">> >>, "success", Naive(1), Aware(MaxClock, 1))}

\* (func_name LIKE ? OR source_code LIKE ? OR doc_string LIKE ? OR error_message LIKE ?)
KeywordCond(row, kw) ==
  \/ Like(row.func_name, kw)
  \/ Like(row.source_code, kw)
  \/ Like(row.doc_string, kw)
  \/ Like(row.error_message, kw)

\* the tag conditions joined by AND instead of OR
TagsCondAll(row, tg) == \A i \in 1 .. Len(tg) : Like(row.tags, tg[i])

\* (tags LIKE ? OR tags LIKE ? ...), one '%tag%' per requested tag
TagsCond(row, tg) == \E i \in 1 .. Len(tg) : Like(row.tags, tg[i])

\* the status condition added only for 'error'
StatusCondErrorOnly(row, st) == st = "error" => row.status = st

\* status = ?
StatusCond(row, st) == row.status = st

\* a date argument as the text bound to the statement: a naive one gets
\* tzinfo=self.timezone, then isoformat()
BoundText(d, tz) ==
  IF d.naive THEN [local |-> d.local, off |-> tz] ELSE [local |-> d.local, off |-> d.off]

\* timestamp >= ?
StartCond(row, d, tz) == TextLeq(BoundText(d, tz), row.timestamp)

\* timestamp <= ?
EndCond(row, d, tz) == TextLeq(row.timestamp, BoundText(d, tz))

\* the WHERE clause search builds: the conditions given, joined by AND
Where(row, q, tz) ==
  /\ (q.keyword # <<>> => KeywordCond(row, q.keyword))
  /\ (q.tags # <<>> => TagsCond(row, q.tags))
  /\ (q.status # "" => StatusCond(row, q.status))
  /\ (q.start_date.given => StartCond(row, q.start_date, tz))
  /\ (q.end_date.given => EndCond(row, q.end_date, tz))

\* ORDER BY timestamp DESC: the matching rows in every order that is
\* descending in the timestamp text; SQL leaves the order of equal keys open
ResultOrders(rows, q, tz) ==
  LET M == {i \in 1 .. Len(rows) : Where(rows[i], q, tz)}
      n == Cardinality(M)
  IN {p \in [1 .. n -> M] :
        /\ \A i, j \in 1 .. n : i # j => p[i] # p[j]
        /\ \A i \in 1 .. n : i < n => TextLeq(rows[p[i + 1]].timestamp, rows[p[i]].timestamp)}

\* json.loads of a stored text that it accepts
JsonLoads(txt) == IF txt = "null" THEN "None" ELSE txt

\* try: json.loads(txt) / except: keep the text
TryJsonLoads(txt) == IF txt = Malformed THEN txt ELSE JsonLoads(txt)

\* the rows whose args or kwargs json.loads rejects
Unparsed(rows) == {i \in 1 .. Len(rows) : Malformed \in {rows[i].args, rows[i].kwargs}}

\* the dict search builds for a row
Project(row) ==
  [id |-> row.id, function |-> row.func_name, documentation |-> row.doc_string,
   timestamp |-> row.timestamp,
   arguments |-> [args |-> JsonLoads(row.args), kwargs |-> JsonLoads(row.kwargs)],
   shows |-> IF row.status = "success" THEN "return_value" ELSE "error",
   return_value |-> IF row.status = "success" THEN TryJsonLoads(row.return_value) ELSE NULL,
   error |-> IF row.status = "success" THEN NullText ELSE row.error_message]

\* search(keyword, tags, status, start_date, end_date), called by a thread
\* that is not inside a wrapper. A search that follows a search without a step
\* between sees the same rows and returns one of the same results, so it is
\* taken from the state before. json.loads(row["args"]) and
\* json.loads(row["kwargs"]) are outside any try: a fetched row either of
\* them rejects ends the call with json.JSONDecodeError
Search(t) ==
  /\ pc[t] = "idle"
  /\ sr = NoSearch
  /\ \E q \in Queries :
       IF \E i \in Unparsed(db) : Where(db[i], q, timezone)
       THEN sr' = [kind |-> "raised", q |-> q, exc |-> "JSONDecodeError"]
       ELSE \E p \in ResultOrders(db, q, timezone) :
              sr' = [kind |-> "search", q |-> q,
                     result |-> [i \in DOMAIN p |-> Project(db[p[i]])]]
  /\ UNCHANGED <<clock, timezone, db, seq, lock, pc, fn, beh, called, caught, rec,
                 outcome, written, calls>>
  /\ UNCHANGED aside

(* ----------------------------- statistics ---------------------------- *)

\* the arguments of get_statistics; "" and None are the same to "if func_name:"
\* and "if status:"
StatQuery(name, st, sd, ed) ==
  [func_name |-> name, status |-> st, start_date |-> sd, end_date |-> ed]

\* str.lower() of the status strings that are passed
Lower(st) == IF st = "Success" THEN "success" ELSE st

StatStatuses == {"success", "error", "failed", "Success"}
StatDates == {Naive(l) : l \in DateLocals} \cup {Aware(l, 1) : l \in DateLocals}

\* the calls of get_statistics that are made
StatQueries ==
  {StatQuery(<<>>, st, NoDate, NoDate) : st \in StatStatuses \cup {""}}
  \cup {StatQuery(<<>>, "", d, NoDate) : d \in StatDates}
  \cup {StatQuery(<<>>, "", NoDate, d) : d \in StatDates}
  \cup {StatQuery(<<"f">>, "", NoDate, NoDate),
        StatQuery(<<"f">>, "error", Naive(1), Aware(MaxClock, 1))}

\* timestamp >= ? with start_date.isoformat() bound: the text of a naive date
\* has no offset suffix, so it is a proper prefix of every stored text of the
\* same wall-clock reading and sorts before it
StatStartCond(row, d) ==
  IF d.naive THEN d.local <= row.timestamp.local
  ELSE TextLeq([local |-> d.local, off |-> d.off], row.timestamp)

\* timestamp <= ? with end_date.isoformat() bound
StatEndCond(row, d) ==
  IF d.naive THEN row.timestamp.local < d.local
  ELSE TextLeq(row.timestamp, [local |-> d.local, off |-> d.off])

\* the WHERE clause get_statistics builds; a status that lowers to neither
\* 'success' nor 'error' adds no condition
StatWhere(row, q) ==
  /\ (q.func_name # <<>> => row.func_name = q.func_name)
  /\ (q.start_date.given => StatStartCond(row, q.start_date))
  /\ (q.end_date.given => StatEndCond(row, q.end_date))
  /\ (Lower(q.status) = "success" => row.status = "success")
  /\ (Lower(q.status) = "error" => row.status = "error")

\* the rate cut off after the second decimal instead of rounded
SuccessRateTruncated(success_count, total_calls) ==
  LET h == (success_count * 10000) \div total_calls
  IN [whole |-> h \div 100, hundredths |-> h % 100]

\* f"{(success_count / total_calls * 100):.2f}%": the digits before and after
\* the point of the text, the quotient rounded to the nearest hundredth (no
\* quotient of fewer than 32 calls lies halfway between two hundredths)
SuccessRate(success_count, total_calls) ==
  LET h == (2 * success_count * 10000 + total_calls) \div (2 * total_calls)
  IN [whole |-> h \div 100, hundredths |-> h % 100]

\* MIN(timestamp) of a group, as TEXT
MinTimestamp(rows, G) ==
  rows[CHOOSE i \in G : \A j \in G : TextLeq(rows[i].timestamp, rows[j].timestamp)].timestamp

\* MAX(timestamp) of a group, as TEXT
MaxTimestamp(rows, G) ==
  rows[CHOOSE i \in G : \A j \in G : TextLeq(rows[j].timestamp, rows[i].timestamp)].timestamp

\* the second statement of get_statistics: WHERE func_name = ? AND
\* status = 'error' GROUP BY error_type, with no other condition
ErrorTypeCounts(rows, name) ==
  LET E == {i \in 1 .. Len(rows) : rows[i].func_name = name /\ rows[i].status = "error"}
  IN [e \in {rows[i].error_type : i \in E} |->
        Cardinality({i \in E : rows[i].error_type = e})]

\* the dict of one function (without the three execution-time entries); the
\* error-type entry is there when error_count > 0
FuncStats(rows, q, name) ==
  LET G == {i \in 1 .. Len(rows) : StatWhere(rows[i], q) /\ rows[i].func_name = name}
      total_calls == Cardinality(G)
      success_count == Cardinality({i \in G : rows[i].status = "success"})
      error_count == Cardinality({i \in G : rows[i].status = "error"})
  IN [total_calls |-> total_calls,
      success_count |-> success_count,
      error_count |-> error_count,
      success_rate |-> SuccessRate(success_count, total_calls),
      first_call |-> MinTimestamp(rows, G),
      last_call |-> MaxTimestamp(rows, G),
      has_error_types |-> error_count > 0,
      error_types |-> IF error_count > 0 THEN ErrorTypeCounts(rows, name) ELSE <<>>]

\* GROUP BY func_name: one entry for each function with a row the WHERE
\* clause keeps
Statistics(rows, q) ==
  [name \in {rows[i].func_name : i \in {k \in 1 .. Len(rows) : StatWhere(rows[k], q)}} |->
     FuncStats(rows, q, name)]

\* get_statistics(func_name, start_date, end_date, status)
GetStatistics(t) ==
  /\ pc[t] = "idle"
  /\ sr = NoSearch
  /\ \E q \in StatQueries :
       sr' = [kind |-> "statistics", q |-> q, result |-> Statistics(db, q)]
  /\ UNCHANGED <<clock, timezone, db, seq, lock, pc, fn, beh, called, caught, rec,
                 outcome, written, calls>>
  /\ UNCHANGED aside

(* ------------------------- the other read calls ----------------------- *)

\* the value get_record_detail returns when no row has the id
None == [found |-> FALSE]

\* the row another id would have selected
RowOfFirst(rows, record_id) == IF rows = <<>> THEN {} ELSE {rows[1]}

\* SELECT * FROM function_records WHERE id = ?
RowOf(rows, record_id) == {rows[i] : i \in {k \in 1 .. Len(rows) : rows[k].id = record_id}}

\* the detail dict get_record_detail builds (without execution_time); a
\* return value that is there is replaced by what json.loads makes of it
Detail(row) ==
  [found |-> TRUE, id |-> row.id, func_name |-> row.func_name,
   module_path |-> row.module_path, doc_string |-> row.doc_string,
   source_code |-> row.source_code, timestamp |-> row.timestamp,
   status |-> row.status, args |-> row.args, kwargs |-> row.kwargs,
   return_value |-> IF row.return_value \notin {NULL, ""}
                    THEN TryJsonLoads(row.return_value) ELSE row.return_value,
   error_type |-> row.error_type, error_message |-> row.error_message,
   error_traceback |-> row.error_traceback, dependencies |-> row.dependencies,
   tags |-> row.tags]

\* the ids get_record_detail is called with
RecordIds == 0 .. MaxCalls

\* get_record_detail(record_id): None when fetchone() finds no row, else the
\* detail dict, which is also printed
GetRecordDetail(t) ==
  /\ pc[t] = "idle"
  /\ sr = NoSearch
  /\ \E record_id \in RecordIds :
       sr' = [kind |-> "detail", record_id |-> record_id,
              result |-> IF RowOf(db, record_id) = {} THEN None
                         ELSE Detail(CHOOSE row \in RowOf(db, record_id) : TRUE)]
  /\ UNCHANGED <<clock, timezone, db, seq, lock, pc, fn, beh, called, caught, rec,
                 outcome, written, calls>>
  /\ UNCHANGED aside

\* error_statistics(): WHERE error_type IS NOT NULL GROUP BY error_type, the
\* count of each type (without the average execution time)
ErrorStatistics(t) ==
  /\ pc[t] = "idle"
  /\ sr = NoSearch
  /\ LET E == {i \in 1 .. Len(db) : db[i].error_type # NULL}
     IN sr' = [kind |-> "error_statistics",
               result |-> [e \in {db[i].error_type : i \in E} |->
                             [count |-> Cardinality({i \in E : db[i].error_type = e})]]]
  /\ UNCHANGED <<clock, timezone, db, seq, lock, pc, fn, beh, called, caught, rec,
                 outcome, written, calls>>
  /\ UNCHANGED aside

\* the function names print_function_info is called with
InfoNames == {<<"f">>, <<"z">>}

\* print_function_info(func_name): WHERE func_name = ? ORDER BY timestamp DESC
\* LIMIT 1, and what is printed of that row; it returns nothing
PrintFunctionInfo(t) ==
  /\ pc[t] = "idle"
  /\ sr = NoSearch
  /\ \E name \in InfoNames :
       LET F == {i \in 1 .. Len(db) : db[i].func_name = name}
           L == {i \in F : \A j \in F : TextLeq(db[j].timestamp, db[i].timestamp)}
       IN IF F = {}
          THEN sr' = [kind |-> "function_info", func_name |-> name, printed |-> None]
          ELSE \E i \in L :
                 sr' = [kind |-> "function_info", func_name |-> name,
                        printed |-> [found |-> TRUE, source_code |-> db[i].source_code,
                                     doc_string |-> db[i].doc_string,
                                     dependencies |-> db[i].dependencies]]
  /\ UNCHANGED <<clock, timezone, db, seq, lock, pc, fn, beh, called, caught, rec,
                 outcome, written, calls>>
  /\ UNCHANGED aside

(* ------------------ one invocation, followed with the clock ----------- *)

\* what this section leaves alone
untimed == <<timezone, db, seq, lock, pc, fn, beh, called, caught, rec, outcome,
             written, calls, sr, columns, sz, inv>>

\* wrapper is entered: start_time = time.time()
TimerStart ==
  /\ tm.pc = "off"
  /\ \E b \in Behaviours :
       tm' = [NoTiming EXCEPT !.pc = "source", !.start_time = clock,
                              !.kind = IF b.kind = "return" THEN "return"
                                       ELSE IF b.exc.base THEN "interrupt" ELSE "raise"]
  /\ UNCHANGED <<clock, untimed>>

\* inspect.getsource(func), dedented and stripped
GotSource ==
  /\ tm.pc = "source"
  /\ tm' = [tm EXCEPT !.pc = "doc"]
  /\ UNCHANGED <<clock, untimed>>

\* inspect.getdoc(func) or ""
GotDoc ==
  /\ tm.pc = "doc"
  /\ tm' = [tm EXCEPT !.pc = "deps"]
  /\ UNCHANGED <<clock, untimed>>

\* self._get_dependencies(func), or its fallback
GotDependencies ==
  /\ tm.pc = "deps"
  /\ tm' = [tm EXCEPT !.pc = "call"]
  /\ UNCHANGED <<clock, untimed>>

\* func(*args, **kwargs) is entered
TargetEntered ==
  /\ tm.pc = "call"
  /\ tm' = [tm EXCEPT !.pc = "running", !.entered = clock]
  /\ UNCHANGED <<clock, untimed>>

\* func returns or raises; an exception that is not an Exception leaves wrapper
TargetLeft ==
  /\ tm.pc = "running"
  /\ tm' = [tm EXCEPT !.pc = IF tm.kind = "interrupt" THEN "propagated" ELSE "serialize",
                      !.left = clock]
  /\ UNCHANGED <<clock, untimed>>

\* the entries of the record dict before execution_time: the module path and
\* json.dumps(self._serialize_args(...)) of args, kwargs and the result, or of
\* args, kwargs and the error state
Serialized ==
  /\ tm.pc = "serialize"
  /\ tm' = [tm EXCEPT !.pc = "stop"]
  /\ UNCHANGED <<clock, untimed>>

\* "execution_time": time.time() - start_time, the last entry of the dict
TimerStop ==
  /\ tm.pc = "stop"
  /\ tm' = [tm EXCEPT !.pc = "save", !.execution_time = clock - tm.start_time]
  /\ UNCHANGED <<clock, untimed>>

\* self._save_record(record), then return result or raise
Handed ==
  /\ tm.pc = "save"
  /\ tm' = [tm EXCEPT !.pc = "recorded"]
  /\ UNCHANGED <<clock, untimed>>

(* ----------------------------- _serialize_args ------------------------ *)

\* Python values: a type tag, the text of a primitive or of str(value), and
\* the items of a container (the entries of a dict in insertion order)
Str(s) == [t |-> "str", v |-> s, items |-> <<>>]
IntOf(s) == [t |-> "int", v |-> s, items |-> <<>>]
NoneValue == [t |-> "NoneType", v |-> "None", items |-> <<>>]
Object(s) == [t |-> "object", v |-> s, items |-> <<>>]
ListOf(xs) == [t |-> "list", v |-> "", items |-> xs]
TupleOf(xs) == [t |-> "tuple", v |-> "", items |-> xs]
DictOf(es) == [t |-> "dict", v |-> "", items |-> es]
Entry(k, x) == [k |-> k, x |-> x]

\* isinstance(value, (str, int, float, bool, type(None)))
Primitives == {"str", "int", "float", "bool", "NoneType"}

\* str(k) of a dict key
StrOf(k) == Str(k.v)

\* d[k] = x on a dict under construction: a key that is there keeps its
\* place and gets the new value
RECURSIVE DictPut(_, _, _)
DictPut(es, k, x) ==
  IF es = <<>> THEN <<Entry(k, x)>>
  ELSE IF Head(es).k = k THEN <<Entry(k, x)>> \o Tail(es)
  ELSE <<Head(es)>> \o DictPut(Tail(es), k, x)

\* the dict a comprehension builds from entries taken in order
RECURSIVE Comprehend(_)
Comprehend(es) ==
  IF es = <<>> THEN <<>>
  ELSE LET e == es[Len(es)]
       IN DictPut(Comprehend(SubSeq(es, 1, Len(es) - 1)), e.k, e.x)

\* the keys of a dict left as they are
RECURSIVE SerializeKeepKeys(_)
SerializeKeepKeys(value) ==
  CASE value.t \in Primitives -> value
    [] value.t \in {"list", "tuple"} ->
         ListOf(IF value.items = <<>> THEN <<>>
                ELSE [i \in 1 .. Len(value.items) |-> SerializeKeepKeys(value.items[i])])
    [] value.t = "dict" ->
         DictOf(IF value.items = <<>> THEN <<>>
                ELSE Comprehend([i \in 1 .. Len(value.items) |->
                       Entry(value.items[i].k, SerializeKeepKeys(value.items[i].x))]))
    [] OTHER -> Str(value.v)

\* _serialize_args(value)
RECURSIVE Serialize(_)
Serialize(value) ==
  CASE value.t \in Primitives -> value
    [] value.t \in {"list", "tuple"} ->
         ListOf(IF value.items = <<>> THEN <<>>
                ELSE [i \in 1 .. Len(value.items) |-> Serialize(value.items[i])])
    [] value.t = "dict" ->
         DictOf(IF value.items = <<>> THEN <<>>
                ELSE Comprehend([i \in 1 .. Len(value.items) |->
                       Entry(StrOf(value.items[i].k), Serialize(value.items[i].x))]))
    [] OTHER -> Str(value.v)

\* values that are not containers: a str, an int, None and an object of a
\* class of the caller
Atoms == {Str("a"), IntOf("1"), NoneValue, Object("<o>")}

\* dict keys: an int and the str that str() makes of it
Keys == {IntOf("1"), Str("1")}

\* the sequences of up to n members of S
SeqsUpTo(S, n) == UNION {[1 .. k -> S] : k \in 0 .. n}

\* the values nested up to depth d: containers of atoms hold up to MaxItems
\* items, containers of containers one
RECURSIVE Values(_)
Values(d) ==
  IF d = 0 THEN Atoms
  ELSE LET V == Values(d - 1)
           n == IF d = 1 THEN MaxItems ELSE 1
           E == {es \in SeqsUpTo({Entry(k, x) : k \in Keys, x \in V}, n) :
                   \A i, j \in 1 .. Len(es) : i # j => es[i].k # es[j].k}
       IN V \cup {ListOf(xs) : xs \in SeqsUpTo(V, n)}
            \cup {TupleOf(xs) : xs \in SeqsUpTo(V, n)}
            \cup {DictOf(es) : es \in E}

\* a value is about to be handed to _serialize_args
InitSerialize ==
  /\ clock = 1
  /\ timezone \in Offsets
  /\ db = <<>>
  /\ seq = 0
  /\ lock = "free"
  /\ pc = [t \in Threads |-> "idle"]
  /\ fn = [t \in Threads |-> NoFunc]
  /\ beh = [t \in Threads |-> NoOutcome]
  /\ called = [t \in Threads |-> FALSE]
  /\ caught = [t \in Threads |-> NoErr]
  /\ rec = [t \in Threads |-> NoRecord]
  /\ outcome = [t \in Threads |-> NoOutcome]
  /\ written = [t \in Threads |-> 0]
  /\ calls = 0
  /\ sr = NoSearch
  /\ columns = CreateTable
  /\ tm = NoTiming
  /\ inv = NoInvocation
  /\ \E x \in Values(MaxNesting) :
       sz = [x |-> x, y |-> NoValue, yy |-> NoValue, step |-> 0]

\* y = self._serialize_args(x)
SerializeValue ==
  /\ sz.step = 0
  /\ sz' = [sz EXCEPT !.y = Serialize(sz.x), !.step = 1]
  /\ UNCHANGED <<clock, timezone, db, seq, lock, pc, fn, beh, called, caught, rec,
                 outcome, written, calls, sr, columns, tm, inv>>

\* self._serialize_args(y), of what the first call returned
SerializeAgain ==
  /\ sz.step = 1
  /\ sz' = [sz EXCEPT !.yy = Serialize(sz.y), !.step = 2]
  /\ UNCHANGED <<clock, timezone, db, seq, lock, pc, fn, beh, called, caught, rec,
                 outcome, written, calls, sr, columns, tm, inv>>

(* ------------------ one invocation, followed with its arguments ------- *)

\* json.dumps of a value _serialize_args returned, as the pieces of its text
RECURSIVE JsonText(_)
JsonText(value) ==
  LET RECURSIVE Items(_, _)
      Items(xs, i) ==
        IF i > Len(xs) THEN <<>>
        ELSE (IF i > 1 THEN <<", ">> ELSE <<>>) \o JsonText(xs[i]) \o Items(xs, i + 1)
      RECURSIVE Entries(_, _)
      Entries(es, i) ==
        IF i > Len(es) THEN <<>>
        ELSE (IF i > 1 THEN <<", ">> ELSE <<>>)
               \o JsonText(es[i].k) \o <<": ">> \o JsonText(es[i].x) \o Entries(es, i + 1)
  IN CASE value.t = "str" -> <<"\"", value.v, "\"">>
       [] value.t = "NoneType" -> <<"null">>
       [] value.t = "list" -> <<"[">> \o Items(value.items, 1) \o <<"]">>
       [] value.t = "dict" -> <<"{">> \o Entries(value.items, 1) \o <<"}">>
       [] OTHER -> <<value.v>>

\* the objects a caller passes: a str, two lists and a tuple
ArgValues == {Str("a"), ListOf(<<>>), ListOf(<<IntOf("1")>>), TupleOf(<<IntOf("1")>>)}

\* the keyword arguments a caller passes: none, or k=value
KwargValues == {<<>>} \cup {<<Entry(Str("k"), x)>> : x \in ArgValues}

\* lst.append('z') on a list
Appended(value) == ListOf(Append(value.items, Str("z")))

\* what the target can do to the objects it was passed before it returns or
\* raises: nothing, or append to one list among them
Effects(a) ==
  {NoEffect}
  \cup {[on |-> "args", at |-> i] : i \in {j \in 1 .. Len(a.args) : a.args[j].t = "list"}}
  \cup {[on |-> "kwargs", at |-> i] : i \in {j \in 1 .. Len(a.kwargs) : a.kwargs[j].x.t = "list"}}

\* the objects after the target's effect
Mutated(a, e) ==
  CASE e.on = "args" -> [a EXCEPT !.args[e.at] = Appended(@)]
    [] e.on = "kwargs" -> [a EXCEPT !.kwargs[e.at].x = Appended(@)]
    [] OTHER -> a

\* a copy of the arguments taken when wrapper was entered
ArgumentsCopied(called_with, now) == called_with

\* what args and kwargs name in the record dict: the objects wrapper was
\* called with, as they are when the dict is built
ArgumentsSeen(called_with, now) == now

\* wrapper(*args, **kwargs) is entered
ArgsCall ==
  /\ inv.pc = "off"
  /\ \E a \in SeqsUpTo(ArgValues, MaxItems), kw \in KwargValues, k \in {"return", "raise"} :
       inv' = [NoInvocation EXCEPT !.pc = "target", !.kind = k,
                                   !.called_with = [args |-> a, kwargs |-> kw],
                                   !.now = [args |-> a, kwargs |-> kw]]
  /\ UNCHANGED <<clock, timezone, db, seq, lock, pc, fn, beh, called, caught, rec,
                 outcome, written, calls, sr, columns, tm, sz>>

\* result = func(*args, **kwargs): the target runs, and returns or raises
ArgsTarget ==
  /\ inv.pc = "target"
  /\ \E e \in Effects(inv.now) :
       inv' = [inv EXCEPT !.pc = "record", !.effect = e, !.now = Mutated(inv.now, e)]
  /\ UNCHANGED <<clock, timezone, db, seq, lock, pc, fn, beh, called, caught, rec,
                 outcome, written, calls, sr, columns, tm, sz>>

\* the args, kwargs and error_state entries of the record dict, of the try
\* block or of the handler
ArgsRecord ==
  /\ inv.pc = "record"
  /\ LET seen == ArgumentsSeen(inv.called_with, inv.now)
         a == Serialize(TupleOf(seen.args))
         kw == Serialize(DictOf(seen.kwargs))
     IN inv' = [inv EXCEPT
                  !.pc = "recorded",
                  !.record =
                    [status |-> IF inv.kind = "return" THEN "success" ELSE "error",
                     args |-> JsonText(a),
                     kwargs |-> JsonText(kw),
                     error_state |->
                       IF inv.kind = "return" THEN NullText
                       ELSE JsonText(DictOf(<<Entry(Str("args"), a),
                                              Entry(Str("kwargs"), kw)>>))]]
  /\ UNCHANGED <<clock, timezone, db, seq, lock, pc, fn, beh, called, caught, rec,
                 outcome, written, calls, sr, columns, tm, sz>>

(* --------------------------- specifications --------------------------- *)

\* the capture pipeline, called from several threads
Next ==
  \/ \E t \in Threads : Call(t)
  \/ \E t \in Threads : Target(t)
  \/ \E t \in Threads : BuildSuccess(t)
  \/ \E t \in Threads : Except(t)
  \/ \E t \in Threads : SaveInsert(t)
  \/ \E t \in Threads : SaveLocked(t)
  \/ \E t \in Threads : SaveCommit(t)
  \/ \E t \in Threads : Return(t)
  \/ Tick
  \/ Reopen

Spec == Init /\ [][Next]_vars

\* the thread of a program that calls and queries from one thread only
MainThread == "t1"

\* wrapped calls from one thread, and searches of what they stored
NextQuery ==
  \/ Call(MainThread)
  \/ Target(MainThread)
  \/ BuildSuccess(MainThread)
  \/ Except(MainThread)
  \/ SaveInsert(MainThread)
  \/ SaveCommit(MainThread)
  \/ Return(MainThread)
  \/ Tick
  \/ Reopen
  \/ Search(MainThread)

SpecQuery == Init /\ [][NextQuery]_vars

\* wrapped calls from one thread, and the other read calls on what they stored
NextStats ==
  \/ Call(MainThread)
  \/ Target(MainThread)
  \/ BuildSuccess(MainThread)
  \/ Except(MainThread)
  \/ SaveInsert(MainThread)
  \/ SaveCommit(MainThread)
  \/ Return(MainThread)
  \/ Tick
  \/ Reopen
  \/ GetStatistics(MainThread)
  \/ GetRecordDetail(MainThread)
  \/ ErrorStatistics(MainThread)
  \/ PrintFunctionInfo(MainThread)

SpecStats == Init /\ [][NextStats]_vars

\* wrapped calls made one after the other within one reading of the clock,
\* and get_statistics of what they stored
NextRate ==
  \/ CallUpTo(MainThread, MaxRateCalls)
  \/ Target(MainThread)
  \/ BuildSuccess(MainThread)
  \/ Except(MainThread)
  \/ SaveInsert(MainThread)
  \/ SaveCommit(MainThread)
  \/ Return(MainThread)
  \/ GetStatistics(MainThread)

SpecRate == Init /\ [][NextRate]_vars

\* wrapped calls from several threads within one reading of the clock, and
\* every read call from the main thread
NextFrame ==
  \/ \E t \in Threads : Call(t)
  \/ \E t \in Threads : Target(t)
  \/ \E t \in Threads : BuildSuccess(t)
  \/ \E t \in Threads : Except(t)
  \/ \E t \in Threads : SaveInsert(t)
  \/ \E t \in Threads : SaveLocked(t)
  \/ \E t \in Threads : SaveCommit(t)
  \/ \E t \in Threads : Return(t)
  \/ Search(MainThread)
  \/ GetStatistics(MainThread)
  \/ GetRecordDetail(MainThread)
  \/ ErrorStatistics(MainThread)
  \/ PrintFunctionInfo(MainThread)

SpecFrame == Init /\ [][NextFrame]_vars

\* the statements of one invocation, with time passing between them
NextTiming ==
  \/ TimerStart
  \/ GotSource
  \/ GotDoc
  \/ GotDependencies
  \/ TargetEntered
  \/ TargetLeft
  \/ Serialized
  \/ TimerStop
  \/ Handed
  \/ Tick

SpecTiming == Init /\ [][NextTiming]_vars

\* _serialize_args applied to a value and to its own result
NextSerialize ==
  \/ SerializeValue
  \/ SerializeAgain

SpecSerialize == InitSerialize /\ [][NextSerialize]_vars

\* one invocation: the call, the target, the record dict
NextArgs ==
  \/ ArgsCall
  \/ ArgsTarget
  \/ ArgsRecord

SpecArgs == Init /\ [][NextArgs]_vars

\* a file of an older version is opened, then wrapped calls from one thread
NextOldStore ==
  \/ Open
  \/ Call(MainThread)
  \/ Target(MainThread)
  \/ BuildSuccess(MainThread)
  \/ Except(MainThread)
  \/ SaveInsert(MainThread)
  \/ SaveNoColumn(MainThread)
  \/ SaveCommit(MainThread)
  \/ Return(MainThread)
  \/ Tick

SpecOldStore == InitOldStore /\ [][NextOldStore]_vars

\* searches and detail lookups on a file with rewritten JSON columns
NextDamaged ==
  \/ Search(MainThread)
  \/ GetRecordDetail(MainThread)
  \/ Reopen

SpecDamaged == InitDamaged /\ [][NextDamaged]_vars

(* ------------------------------- claims ------------------------------- *)

\* the columns of a stored row: those the wrapper's INSERT names (but for
\* execution_time) and the id
Columns ==
  {"id", "func_name", "module_path", "source_code", "doc_string", "dependencies",
   "args", "kwargs", "return_value", "status", "error_type", "error_message",
   "error_traceback", "error_state", "tags", "timestamp"}

Rows == {db[i] : i \in 1 .. Len(db)}

\* a row's outcome, by the variant that is populated
IsFailure(row) == row.error_type # NULL
IsSuccess(row) == row.return_value # NULL

\* the ids of the rows a search returned
ResultIds(s) == {s.result[i].id : i \in DOMAIN s.result}

\* the tags the decorator of a row's function was given
TagsOf(row) == (CHOOSE f \in Funcs : f.name = row.func_name).tags

\* C1: when control is back with the caller, the invocation has added exactly
\* one row to function_records, whatever the target and the instrumentation did.
C1_ExactlyOneRow ==
  \A t \in Threads : pc[t] = "done" => written[t] = 1

\* C2: the caller of the wrapper gets what a direct call of the target gives:
\* the same returned value, or the same raised exception.
C2_Transparent ==
  \A t \in Threads : pc[t] = "done" => outcome[t] = beh[t]

\* C3: when the target raises an error, the caller gets that same error, and
\* by then the invocation's row with status 'error', the error's type name,
\* message and stack trace is in the store.
C3_RecordedThenReraised ==
  \A t \in Threads :
    (pc[t] = "done" /\ called[t] /\ beh[t].kind = "raise" /\ ~beh[t].exc.base)
    => /\ outcome[t] = beh[t]
       /\ written[t] = 1
       /\ \E r \in Rows :
            /\ r.status = "error"
            /\ r.error_type = beh[t].exc.type
            /\ r.error_message = beh[t].exc.msg
            /\ r.error_traceback = FormatExc(beh[t].exc)

\* C4: when introspection fails (no source text, no module, or a failed
\* dependency scan), the target is still called, its result or error still
\* reaches the caller, and a record is still written.
C4_IntrospectionNeverAborts ==
  \A t \in Threads :
    (pc[t] = "done" /\ (~fn[t].hasSource \/ ~fn[t].hasModule \/ ~fn[t].scanOk))
    => /\ called[t]
       /\ outcome[t] = beh[t]
       /\ written[t] = 1

\* C5 (amended): the write lock serializes the inserts: at most one insert is
\* between its INSERT and its commit, every committed row is whole, and the
\* committed rows have ids that strictly increase in commit order (so they are
\* pairwise distinct).
C5_Serialized ==
  /\ \A t \in Threads : (pc[t] = "commit") <=> (lock = t)
  /\ \A i \in 1 .. Len(db) : DOMAIN db[i] = Columns
  /\ \A i, j \in 1 .. Len(db) : i < j => db[i].id < db[j].id

\* C5 as stated: the above, and no insert fails because another insert is in
\* progress.
C5_NoInsertFails ==
  /\ C5_Serialized
  /\ \A t \in Threads : caught[t] # LockedErr /\ outcome[t] # Raises(LockedErr)

\* C5 witness: two invocations that overlapped have both committed their row.
C5_Witness ==
  /\ Len(db) >= 2
  /\ \A t \in Threads : pc[t] = "done" /\ written[t] = 1

\* C6: every stored row has exactly one outcome variant populated: success
\* with a return value and no error field, or error with all four error fields
\* and no return value.
C6_OneOutcomeVariant ==
  \A r \in Rows :
    \/ /\ r.status = "success"
       /\ r.return_value # NULL
       /\ r.error_type = NULL
       /\ r.error_message = NullText
       /\ r.error_traceback = NULL
       /\ r.error_state = NULL
    \/ /\ r.status = "error"
       /\ r.return_value = NULL
       /\ r.error_type # NULL
       /\ r.error_message # NullText
       /\ r.error_traceback # NULL
       /\ r.error_state # NULL

\* C6 witness: the store holds the row of a call that returned None and the
\* row of a call that raised.
C6_Witness ==
  /\ \E r \in Rows : r.status = "success" /\ r.return_value = "null"
  /\ \E r \in Rows : r.status = "error" /\ r.error_type = "ValueError"

\* C7: a search result is newest first: a later instant comes first, and of
\* two rows with the same instant the one with the larger id comes first.
C7_NewestFirst ==
  sr.kind = "search" =>
    \A i, j \in DOMAIN sr.result :
      i < j =>
        \/ Instant(sr.result[i].timestamp) > Instant(sr.result[j].timestamp)
        \/ /\ Instant(sr.result[i].timestamp) = Instant(sr.result[j].timestamp)
           /\ sr.result[i].id > sr.result[j].id

\* the ids search returns for a query on the rows now stored
MatchIds(q) == {db[i].id : i \in {k \in 1 .. Len(db) : Where(db[k], q, timezone)}}

StatusQuery(st) == Query(<<>>, <<>>, st, NoDate, NoDate)

\* C8: search(status='error') returns exactly the rows whose outcome is a
\* failure, search(status='success') exactly those whose outcome is a success;
\* the two are disjoint and together are what search() returns.
C8_StatusPartition ==
  /\ (sr.kind = "search" /\ sr.q = StatusQuery("error"))
       => ResultIds(sr) = {r.id : r \in {x \in Rows : IsFailure(x)}}
  /\ (sr.kind = "search" /\ sr.q = StatusQuery("success"))
       => ResultIds(sr) = {r.id : r \in {x \in Rows : IsSuccess(x)}}
  /\ MatchIds(StatusQuery("error")) \cap MatchIds(StatusQuery("success")) = {}
  /\ MatchIds(StatusQuery("error")) \cup MatchIds(StatusQuery("success"))
       = MatchIds(StatusQuery(""))
  /\ MatchIds(StatusQuery("")) = {r.id : r \in Rows}

\* C8 witness: a search by status 'error' returned some rows and left out others.
C8_Witness ==
  /\ sr.kind = "search"
  /\ sr.q = StatusQuery("error")
  /\ ResultIds(sr) # {}
  /\ \E r \in Rows : r.id \notin ResultIds(sr)

TagsQuery(tg) == Query(<<>>, tg, "", NoDate, NoDate)

\* a tag list without LIKE's wildcard characters
NoWildcard(tg) == \A i \in 1 .. Len(tg) : \A j \in 1 .. Len(tg[i]) : tg[i][j] \notin {"%", "_"}

\* w occurs in s as a run of characters, ASCII case ignored
OccursIn(w, s) ==
  \E k \in 0 .. (Len(s) - Len(w)) : \A j \in 1 .. Len(w) : Fold(s[k + j]) = Fold(w[j])

\* one of the requested tags is one of the row's tags
HasTag(row, tg) == \E i \in 1 .. Len(tg) : \E j \in 1 .. Len(TagsOf(row)) : TagsOf(row)[j] = tg[i]

\* C9 as stated: search(tags=T) returns a row if and only if one of the row's
\* tags equals one of the tags in T.
C9_TagMembership ==
  (sr.kind = "search" /\ sr.q = TagsQuery(sr.q.tags) /\ sr.q.tags # <<>>)
    => ResultIds(sr) = {r.id : r \in {x \in Rows : HasTag(x, sr.q.tags)}}

\* C9 (amended): for requested tags without % and _, search(tags=T) returns a
\* row if and only if some tag of T occurs, ASCII case ignored, as a run of
\* characters in the row's comma-joined tag text; so a row that has one of the
\* requested tags is returned, a row tagged a,b is returned for T = [b] and is
\* not returned for T = [c].
C9_TagSubstring ==
  (sr.kind = "search" /\ sr.q = TagsQuery(sr.q.tags) /\ sr.q.tags # <<>>
     /\ NoWildcard(sr.q.tags))
    => /\ ResultIds(sr) =
            {r.id : r \in {x \in Rows :
                             \E i \in 1 .. Len(sr.q.tags) : OccursIn(sr.q.tags[i], x.tags)}}
       /\ \A r \in Rows : HasTag(r, sr.q.tags) => r.id \in ResultIds(sr)
       /\ \A r \in Rows :
            TagsOf(r) = << <<"a">>, <<"b">> >> =>
              /\ sr.q.tags = << <<"b">> >> => r.id \in ResultIds(sr)
              /\ sr.q.tags = << <<"c">> >> => r.id \notin ResultIds(sr)

\* C9 witness: a search for tag b returned the row tagged a,b and also a row
\* none of whose tags is b.
C9_Witness ==
  /\ sr.kind = "search"
  /\ sr.q = TagsQuery(<< <<"b">> >>)
  /\ \E r \in Rows : TagsOf(r) = << <<"a">>, <<"b">> >> /\ r.id \in ResultIds(sr)
  /\ \E r \in Rows : ~HasTag(r, sr.q.tags) /\ r.id \in ResultIds(sr)

\* the instant a date argument denotes: a naive one is in the store's timezone
BoundInstant(d) == IF d.naive THEN d.local - timezone ELSE d.local - d.off

\* C10: search(start_date=s, end_date=e) returns exactly the rows whose
\* instant t has s <= t <= e, each bound taken as the instant it denotes.
C10_InstantRange ==
  (sr.kind = "search" /\ sr.q = Query(<<>>, <<>>, "", sr.q.start_date, sr.q.end_date))
    => ResultIds(sr) =
         {r.id : r \in {x \in Rows :
            /\ sr.q.start_date.given => BoundInstant(sr.q.start_date) <= Instant(x.timestamp)
            /\ sr.q.end_date.given => Instant(x.timestamp) <= BoundInstant(sr.q.end_date)}}

\* the function names of the rows now stored
FuncNames == {r.func_name : r \in Rows}

\* the total calls get_statistics reported for a function, 0 without an entry
ReportedTotal(name) ==
  IF name \in DOMAIN sr.result THEN sr.result[name].total_calls ELSE 0

\* the dates and the status of a get_statistics call, as arguments of search
AsSearch(q) == Query(<<>>, <<>>, q.status, q.start_date, q.end_date)

\* C11: get_statistics(start_date, end_date, status) counts exactly the rows
\* search(start_date, end_date, status) returns: for every function, the total
\* calls reported are the number of the function's rows in the search result.
C11_SameFilterAsSearch ==
  (sr.kind = "statistics" /\ sr.q.func_name = <<>>)
    => \A name \in FuncNames :
         ReportedTotal(name)
           = Cardinality({r \in Rows : r.func_name = name /\ r.id \in MatchIds(AsSearch(sr.q))})

\* the sum of the counts of a breakdown
RECURSIVE SumOver(_, _)
SumOver(counts, keys) ==
  IF keys = {} THEN 0
  ELSE LET k == CHOOSE x \in keys : TRUE
       IN counts[k] + SumOver(counts, keys \ {k})

\* C12: for every function get_statistics reports with at least one failure,
\* the counts of its error-type breakdown add up to its reported failure count.
C12_BreakdownWithinFilter ==
  sr.kind = "statistics"
    => \A name \in DOMAIN sr.result :
         sr.result[name].error_count > 0
           => /\ sr.result[name].has_error_types
              /\ SumOver(sr.result[name].error_types, DOMAIN sr.result[name].error_types)
                   = sr.result[name].error_count

\* a rate text that is the quotient s / n * 100 to the nearest hundredth
IsRounded(rate, s, n) ==
  LET h == rate.whole * 100 + rate.hundredths
      d == h * n - s * 10000
  IN /\ rate.hundredths \in 0 .. 99
     /\ 2 * (IF d < 0 THEN 0 - d ELSE d) <= n

\* C13: get_statistics without a date or a status reports, for every function
\* with N >= 1 rows it was asked about of which S are successes, total calls N,
\* success count S, failure count N - S and the rate S / N * 100 rounded to
\* two decimals.
C13_CountsAndRate ==
  (sr.kind = "statistics" /\ sr.q.status = ""
     /\ ~sr.q.start_date.given /\ ~sr.q.end_date.given)
    => \A name \in FuncNames :
         (sr.q.func_name # <<>> => name = sr.q.func_name)
           => LET N == Cardinality({r \in Rows : r.func_name = name})
                  S == Cardinality({r \in Rows : r.func_name = name /\ IsSuccess(r)})
              IN /\ name \in DOMAIN sr.result
                 /\ sr.result[name].total_calls = N
                 /\ sr.result[name].success_count = S
                 /\ sr.result[name].error_count = N - S
                 /\ IsRounded(sr.result[name].success_rate, S, N)

\* C13 witness: three calls of f of which two succeeded are reported as
\* 3, 2, 1 and '66.67%'.
C13_Witness ==
  /\ sr.kind = "statistics"
  /\ sr.q = StatQuery(<<>>, "", NoDate, NoDate)
  /\ <<"f">> \in DOMAIN sr.result
  /\ sr.result[<<"f">>].total_calls = 3
  /\ sr.result[<<"f">>].success_count = 2
  /\ sr.result[<<"f">>].error_count = 1
  /\ sr.result[<<"f">>].success_rate = [whole |-> 66, hundredths |-> 67]

\* C14: a call of get_record_detail leaves the store as it is; with an id no
\* row has it returns None, with an id a row has it returns that row's id,
\* function name, status, error fields and tags.
C14_DetailOrNone ==
  [][sr'.kind = "detail"
       => /\ db' = db
          /\ IF \E r \in Rows : r.id = sr'.record_id
             THEN \E r \in Rows :
                    /\ r.id = sr'.record_id
                    /\ sr'.result.found
                    /\ sr'.result.id = r.id
                    /\ sr'.result.func_name = r.func_name
                    /\ sr'.result.status = r.status
                    /\ sr'.result.error_type = r.error_type
                    /\ sr'.result.error_message = r.error_message
                    /\ sr'.result.error_traceback = r.error_traceback
                    /\ sr'.result.tags = r.tags
             ELSE sr'.result = None]_vars

\* C14 witness: of two stored rows, the detail of the second, a failure, was
\* returned.
C14_Witness ==
  /\ sr.kind = "detail"
  /\ Len(db) = 2
  /\ sr.record_id = db[2].id
  /\ sr.result.found
  /\ sr.result.status = "error"
  /\ sr.result.error_type = "ValueError"

\* SQL NULL in a column of the model
IsNull(c, v) == IF c \in {"doc_string", "error_message"} THEN v = NullText ELSE v = NULL

\* C15: opening a file whose table lacks some of today's columns adds every
\* missing column and drops none, keeps every row and its values, has the old
\* rows read NULL in the added columns, and no INSERT of the wrapper names a
\* column the table lacks afterwards.
C15_MigratesEveryColumn ==
  [][/\ (pc[MainThread] = "closed" /\ pc'[MainThread] = "idle")
          => /\ columns \subseteq columns'
             /\ CreateTable \subseteq columns'
             /\ Len(db') = Len(db)
             /\ \A i \in 1 .. Len(db) :
                  /\ \A c \in columns : db'[i][c] = db[i][c]
                  /\ \A c \in columns' \ columns : IsNull(c, db'[i][c])
     /\ pc'[MainThread] = "insert" => DOMAIN rec'[MainThread] \subseteq columns']_vars

\* C16: search does not raise on a stored JSON text that does not parse: it
\* returns every matching row, and a row whose return value does not parse
\* carries the stored text in its place.
C16_MalformedReturnedRaw ==
  /\ sr.kind # "raised"
  /\ sr.kind = "search"
       => /\ ResultIds(sr) = MatchIds(sr.q)
          /\ \A i \in DOMAIN sr.result :
               \A r \in Rows :
                 (r.id = sr.result[i].id /\ r.status = "success" /\ r.return_value = Malformed)
                   => sr.result[i].return_value = Malformed

\* C17: no step takes a row out of the store or changes a row in it; a step
\* that returns from search, get_statistics, get_record_detail,
\* error_statistics or print_function_info leaves the store as it is; the
\* store grows by one row at a time, the record of the invocation that commits.
C17_AppendOnly ==
  [][/\ Len(db') >= Len(db)
     /\ \A i \in 1 .. Len(db) : db'[i] = db[i]
     /\ sr' # NoSearch => db' = db
     /\ Len(db') > Len(db)
          => /\ Len(db') = Len(db) + 1
             /\ \E t \in Threads :
                  /\ pc[t] = "commit"
                  /\ pc'[t] = "done"
                  /\ db'[Len(db')] = rec[t]]_vars

\* C17 witness: with two rows stored, of which the second was written while
\* the first was there, a read call has returned.
C17_Witness ==
  /\ Len(db) = 2
  /\ db[1].id = 1
  /\ db[2].id = 2
  /\ sr.kind \in {"search", "statistics", "detail", "error_statistics", "function_info"}

\* C18: the execution time in a record is the time the target ran, from the
\* moment it is called to the moment it returns or raises.
C18_OnlyTargetTimed ==
  tm.pc \in {"save", "recorded"} => tm.execution_time = tm.left - tm.entered

\* a value of primitives, lists and dicts with str keys only
RECURSIVE JsonShaped(_)
JsonShaped(value) ==
  CASE value.t \in Primitives -> TRUE
    [] value.t = "list" -> \A i \in 1 .. Len(value.items) : JsonShaped(value.items[i])
    [] value.t = "dict" ->
         \A i \in 1 .. Len(value.items) :
           /\ value.items[i].k.t = "str"
           /\ JsonShaped(value.items[i].x)
    [] OTHER -> FALSE

\* C19: what _serialize_args returns holds only primitives, lists and dicts
\* with str keys, and _serialize_args returns it unchanged when given it.
C19_Idempotent ==
  /\ sz.step >= 1 => JsonShaped(sz.y)
  /\ sz.step = 2 => sz.yy = sz.y

\* C19 witness: a dict with the keys 1 and '1' and a tuple or an object among
\* its values was serialized to a dict of one entry, and that again.
C19_Witness ==
  /\ sz.step = 2
  /\ sz.x.t = "dict"
  /\ Len(sz.x.items) = 2
  /\ \E i \in 1 .. 2 : sz.x.items[i].x.t \in {"tuple", "object"}
  /\ Len(sz.y.items) = 1
  /\ sz.y # sz.x

\* C20: an invocation that has written a record with status 'error' is one
\* whose target raised.
C20_ErrorOnlyIfTargetRaised ==
  \A t \in Threads :
    (pc[t] = "done" /\ written[t] >= 1 /\ rec[t].status = "error")
      => beh[t].kind = "raise"

\* the stored text of positional arguments, and of keyword arguments
ArgsText(a) == JsonText(Serialize(TupleOf(a)))
KwargsText(kw) == JsonText(Serialize(DictOf(kw)))

\* C21 as stated: the args and kwargs of a record are the serialization of
\* the argument values as they were when the wrapper was called.
C21_ArgsAsCalled ==
  inv.pc = "recorded"
    => /\ inv.record.args = ArgsText(inv.called_with.args)
       /\ inv.record.kwargs = KwargsText(inv.called_with.kwargs)

\* C21: the args and kwargs of a record are the serialization of the objects
\* passed as they are when the target has returned or raised: the values
\* passed when the target changed none of them, and with the item the target
\* appended when it appended to a list among them; the error state of a
\* failure holds the same two serializations.
C21_ArgsAsLeft ==
  inv.pc = "recorded"
    => LET c == inv.called_with
           e == inv.effect
           a == IF e.on = "args"
                THEN [c.args EXCEPT
                        ![e.at] = ListOf(Append(c.args[e.at].items, Str("z")))]
                ELSE c.args
           kw == IF e.on = "kwargs"
                 THEN <<Entry(c.kwargs[1].k,
                              ListOf(Append(c.kwargs[1].x.items, Str("z"))))>>
                 ELSE c.kwargs
       IN /\ inv.record.args = ArgsText(a)
          /\ inv.record.kwargs = KwargsText(kw)
          /\ e.on = "none" => /\ inv.record.args = ArgsText(c.args)
                              /\ inv.record.kwargs = KwargsText(c.kwargs)
          /\ e.on = "args" => inv.record.args # ArgsText(c.args)
          /\ e.on = "kwargs" => inv.record.kwargs # KwargsText(c.kwargs)
          /\ inv.kind = "raise"
               => inv.record.error_state
                    = <<"{", "\"", "args", "\"", ": ">> \o inv.record.args
                        \o <<", ", "\"", "kwargs", "\"", ": ">> \o inv.record.kwargs
                        \o <<"}">>

\* C21 witness: the target appended to the list it was passed as its second
\* positional argument and raised; the record shows the list with the item.
C21_Witness ==
  /\ inv.pc = "recorded"
  /\ inv.kind = "raise"
  /\ inv.effect = [on |-> "args", at |-> 2]
  /\ inv.called_with.args[2] = ListOf(<<IntOf("1")>>)
  /\ inv.record.args # ArgsText(inv.called_with.args)

====
